---------------------------- MODULE Spec2Model ----------------------------
(***************************************************************************)
(* Allura: the outbound SMTP client (allura/lib/mail_util.py), the inbound *)
(* address router (parse_address), the sitemap tree, the tracker's facet   *)
(* helper (forgetracker/search.py) and the Application base class with its *)
(* admin controller (allura/app.py).                                       *)
(*                                                                         *)
(* Each subsystem has its own next-state relation over its own variables;  *)
(* the variables of the other subsystems stay at their initial values.     *)
(***************************************************************************)
EXTENDS Integers, Sequences, FiniteSets, TLC

VARIABLES
    \* ---- SMTPClient (mail_util.py) ----
    client,        \* self._client: 0 is None, n > 0 the n-th SMTP object created
    created,       \* how many SMTP objects _connect has created so far
    pc,            \* position inside send_raw: "idle" between calls
    args,          \* (addr_from, smtp_addrs, content) of the call in progress
    clientAtCall,  \* self._client when the call in progress started
    trace,         \* the external calls the current/last send_raw made, in order
    raised,        \* the exception the last send_raw call propagated (NoExc: returned)
    calls,         \* send_raw calls started so far
    connects,      \* _connect invocations over all calls so far
    attempts,      \* self._client.sendmail invocations over all calls so far
    usedConns,     \* the SMTP objects those invocations were made on
    failures,      \* external calls (connect or sendmail) that raised, so far
    \* ---- parse_address (mail_util.py) ----
    addrIn,        \* the last call's inputs: [user, domain, cfg]
    addrOut,       \* what that call returned or raised
    \* ---- SitemapEntry (app.py) ----
    children,      \* self.children of the receiving SitemapEntry
    siteIn,        \* the last extend call: self.children before it, and its argument
    \* ---- get_facets (forgetracker/search.py) ----
    facetIn,       \* the call's arguments: [solr_hit, final_result]
    facetOut,      \* [called, result]: the dict get_facets returned
    \* ---- Application.handle_artifact_message (app.py) ----
    posts,         \* the Post documents, in creation order
    attachments,   \* the attachment documents, in creation order
    msgLast,       \* the last call: its arguments, and posts/attachments before it
    msgCount,      \* calls so far
    \* ---- Application.admin_menu, DefaultAdminController (app.py) ----
    installed,     \* mount points of the tools installed in c.project
    options,       \* app.config.options of each tool: option name -> value
    adminLast,     \* the last request: its inputs and what it did
    \* ---- SMTPClient.sendmail (mail_util.py) ----
    mailIn,        \* the call's arguments, the message as the caller built it
    mailOut,       \* what the call did: outcome, the message's headers, addrs after it
    \* ---- DefaultAdminController.update (app.py) ----
    acl,           \* app.config.acl: a list of ACEs
    auditLog,      \* the AuditLog records update wrote, oldest first
    aclLast,       \* the last update request: caller, cards, acl and log before it
    \* ---- parse_message (mail_util.py) ----
    parseIn,       \* the parsed email.message.Message the call works on
    parseOut       \* [called, result]: the dict parse_message returned

smtpVars == <<client, created, pc, args, clientAtCall, trace, raised, calls,
              connects, attempts, usedConns, failures>>
smtpTotals == <<connects, attempts, usedConns, failures>>

addrVars == <<addrIn, addrOut>>

siteVars == <<children, siteIn>>

facetVars == <<facetIn, facetOut>>

msgVars == <<posts, attachments, msgLast, msgCount>>

adminVars == <<installed, options, adminLast>>

mailVars == <<mailIn, mailOut>>

aclVars == <<acl, auditLog, aclLast>>

parseVars == <<parseIn, parseOut>>

vars == <<smtpVars, addrVars, siteVars, facetVars, msgVars, adminVars,
          mailVars, aclVars, parseVars>>

---------------------------------------------------------------------------
(* Generic helpers on sequences                                           *)

SeqsUpTo(S, n) == UNION {[1..k -> S] : k \in 0..n}

\* Strings the code takes apart are sequences of one-character strings.

\* s.endswith(suf)
EndsWith(s, suf) ==
    /\ Len(suf) <= Len(s)
    /\ SubSeq(s, Len(s) - Len(suf) + 1, Len(s)) = suf

\* s.startswith(pre)
StartsWith(s, pre) ==
    /\ Len(pre) <= Len(s)
    /\ SubSeq(s, 1, Len(pre)) = pre

RECURSIVE Split(_, _)
\* s.split(c) for a one-character separator c: never empty, '' gives ['']
Split(s, c) ==
    IF \A i \in 1..Len(s) : s[i] # c THEN <<s>>
    ELSE LET i == CHOOSE k \in 1..Len(s) : s[k] = c /\ \A j \in 1..(k - 1) : s[j] # c
         IN <<SubSeq(s, 1, i - 1)>> \o Split(SubSeq(s, i + 1, Len(s)), c)

RECURSIVE Join(_, _)
\* sep.join(parts)
Join(parts, sep) ==
    IF Len(parts) = 0 THEN <<>>
    ELSE IF Len(parts) = 1 THEN parts[1]
    ELSE parts[1] \o sep \o Join(Tail(parts), sep)

\* reversed(seq)
Reversed(seq) == [i \in 1..Len(seq) |-> seq[Len(seq) + 1 - i]]

---------------------------------------------------------------------------
(* SMTPClient.send_raw / _connect                                         *)

MaxCalls == 3

NoArgs == <<"", "", "">>

\* (addr_from, smtp_addrs, content) triples a caller passes
ArgSet == { <<"noreply@forge", "u1@x", "hello">>, <<"noreply@forge", "u2@x", "bye">> }

\* smtplib's exception classes as send_raw's except clauses see them.
NoExc == [cls |-> "none", code |-> 0]

SmtpCodes == {399, 400, 499, 500}

\* isinstance(e, smtplib.SMTPResponseException): SMTPConnectError, SMTPDataError,
\* SMTPSenderRefused, SMTPHeloError are subclasses and carry smtp_code
ResponseClasses == {"SMTPResponseException", "SMTPConnectError"}

\* every exception self._client.sendmail may raise
SendErrors ==
    { [cls |-> "SMTPServerDisconnected", code |-> 0],
      [cls |-> "SMTPRecipientsRefused", code |-> 0] }
    \cup [cls : ResponseClasses, code : SmtpCodes]

\* every exception _connect may raise (SMTP()/SMTP_SSL() constructor, login, starttls)
ConnectErrors ==
    { [cls |-> "OSError", code |-> 0],
      [cls |-> "SMTPConnectError", code |-> 400] }

Ev(kind, conn, msg, exc) == [ev |-> kind, conn |-> conn, msg |-> msg, exc |-> exc]

\* need_retry with the smtp_code test dropped: every SMTPResponseException retries
need_retry_any_response(e) ==
    e.cls \in {"SMTPServerDisconnected"} \cup ResponseClasses

\* need_retry with the 4xx clause dropped: only a lost connection retries
need_retry_disconnect_only(e) ==
    e.cls \in {"SMTPServerDisconnected", "SMTPConnectError"}

\* the try/except of send_raw: TRUE when need_retry is set, FALSE when the
\* exception is re-raised (or not caught at all)
need_retry(e) ==
    IF e.cls \in {"SMTPServerDisconnected", "SMTPConnectError"} THEN TRUE
    ELSE IF e.cls \in ResponseClasses THEN 400 <= e.code /\ e.code < 500
    ELSE FALSE

\* send_raw that connects on every call, held client or not
send_raw_always_connect(a) ==
    /\ pc = "idle"
    /\ calls < MaxCalls
    /\ calls' = calls + 1
    /\ args' = a
    /\ clientAtCall' = client
    /\ trace' = <<>>
    /\ raised' = NoExc
    /\ pc' = "connect"
    /\ UNCHANGED <<client, created, smtpTotals, addrVars, siteVars, facetVars, msgVars, adminVars, aclVars, parseVars>>

\* def send_raw(...): entry.  `if not self._client: self._connect()`
send_raw(a) ==
    /\ pc = "idle"
    /\ calls < MaxCalls
    /\ calls' = calls + 1
    /\ args' = a
    /\ clientAtCall' = client
    /\ trace' = <<>>
    /\ raised' = NoExc
    /\ pc' = IF client = 0 THEN "connect" ELSE "sendmail"
    /\ UNCHANGED <<client, created, smtpTotals, addrVars, siteVars, facetVars, msgVars, adminVars, aclVars, parseVars>>

\* self._connect() returns: a new SMTP object becomes self._client
connect_ok(next) ==
    /\ pc \in {"connect", "reconnect"}
    /\ created' = created + 1
    /\ client' = created + 1
    /\ trace' = Append(trace, Ev("connect", created + 1, NoArgs, NoExc))
    /\ connects' = connects + 1
    /\ UNCHANGED <<attempts, usedConns, failures>>
    /\ pc' = next
    /\ UNCHANGED <<args, clientAtCall, raised, calls, addrVars, siteVars, facetVars, msgVars, adminVars, mailVars, aclVars, parseVars>>

\* self._connect() raises before assigning self._client: send_raw propagates it
connect_fail(e) ==
    /\ pc \in {"connect", "reconnect"}
    /\ trace' = Append(trace, Ev("connect", 0, NoArgs, e))
    /\ connects' = connects + 1
    /\ failures' = failures + 1
    /\ UNCHANGED <<attempts, usedConns>>
    /\ raised' = e
    /\ pc' = "idle"
    /\ UNCHANGED <<client, created, args, clientAtCall, calls, addrVars, siteVars, facetVars, msgVars, adminVars, mailVars, aclVars, parseVars>>

_connect ==
    \/ connect_ok(IF pc = "connect" THEN "sendmail" ELSE "resend")
    \/ \E e \in ConnectErrors : connect_fail(e)

\* the first self._client.sendmail(addr_from, smtp_addrs, content), inside try
first_sendmail(e) ==
    /\ pc = "sendmail"
    /\ trace' = Append(trace, Ev("sendmail", client, args, e))
    /\ attempts' = attempts + 1
    /\ usedConns' = usedConns \cup {client}
    /\ failures' = IF e = NoExc THEN failures ELSE failures + 1
    /\ UNCHANGED connects
    /\ IF e = NoExc
         THEN pc' = "idle" /\ raised' = NoExc            \* need_retry = False
         ELSE IF need_retry(e)
                THEN pc' = "reconnect" /\ raised' = NoExc
                ELSE pc' = "idle" /\ raised' = e          \* raise
    /\ UNCHANGED <<client, created, args, clientAtCall, calls, addrVars, siteVars, facetVars, msgVars, adminVars, mailVars, aclVars, parseVars>>

\* a second sendmail wrapped in the same try/except as the first: retries again
second_sendmail_retrying(e) ==
    /\ pc = "resend"
    /\ trace' = Append(trace, Ev("sendmail", client, args, e))
    /\ attempts' = attempts + 1
    /\ usedConns' = usedConns \cup {client}
    /\ failures' = IF e = NoExc THEN failures ELSE failures + 1
    /\ UNCHANGED connects
    /\ IF e # NoExc /\ need_retry(e)
         THEN pc' = "reconnect" /\ raised' = NoExc
         ELSE pc' = "idle" /\ raised' = e
    /\ UNCHANGED <<client, created, args, clientAtCall, calls, addrVars, siteVars, facetVars, msgVars, adminVars, mailVars, aclVars, parseVars>>

\* the second self._client.sendmail(...), outside any try
second_sendmail(e) ==
    /\ pc = "resend"
    /\ trace' = Append(trace, Ev("sendmail", client, args, e))
    /\ attempts' = attempts + 1
    /\ usedConns' = usedConns \cup {client}
    /\ failures' = IF e = NoExc THEN failures ELSE failures + 1
    /\ UNCHANGED connects
    /\ raised' = e
    /\ pc' = "idle"
    /\ UNCHANGED <<client, created, args, clientAtCall, calls, addrVars, siteVars, facetVars, msgVars, adminVars, mailVars, aclVars, parseVars>>

---------------------------------------------------------------------------
(* SMTPClient.sendmail, _parse_smtp_addr, _parse_message_id, Header        *)

MaxAddrs == 2

\* Python's None where a string is expected (strings are sequences of characters)
None == <<"None">>

\* bool(x) for a string or None
IsSet(x) == x # None /\ x # << >>

\* c in s
Contains(s, c) == \E i \in 1..Len(s) : s[i] = c

\* RE_MESSAGE_ID without (?:[^>]*/)? : the whole bracketed text is the id
message_id_group_keeps_prefix(inner) == inner

\* the group of RE_MESSAGE_ID on the text between '<' and '>':
\* (?:[^>]*/)? is greedy, so everything up to the last '/' is left out
message_id_group(inner) ==
    IF Contains(inner, "/")
      THEN LET k == CHOOSE i \in 1..Len(inner) :
                       inner[i] = "/" /\ \A j \in (i + 1)..Len(inner) : inner[j] # "/"
           IN SubSeq(inner, k + 1, Len(inner))
      ELSE inner

RECURSIVE finditer(_)
\* [mo.group(1) for mo in RE_MESSAGE_ID.finditer(s)], RE_MESSAGE_ID being
\* <(?:[^>]*/)?([^>]*)> : a match runs from the leftmost '<' to the first '>'
\* after it, and the search goes on behind that '>'
finditer(s) ==
    IF ~\E i \in 1..Len(s) : s[i] = "<" THEN << >>
    ELSE LET i == CHOOSE k \in 1..Len(s) : s[k] = "<" /\ \A j \in 1..(k - 1) : s[j] # "<"
         IN IF ~\E j \in (i + 1)..Len(s) : s[j] = ">" THEN << >>
            ELSE LET j == CHOOSE k \in (i + 1)..Len(s) :
                              s[k] = ">" /\ \A m \in (i + 1)..(k - 1) : s[m] # ">"
                 IN <<message_id_group(SubSeq(s, i + 1, j - 1))>>
                        \o finditer(SubSeq(s, j + 1, Len(s)))

\* def _parse_message_id(msgid)
_parse_message_id(msgid) ==
    IF msgid = None THEN << >> ELSE finditer(msgid)

\* g.noreply and config.return_path, as a deployment sets them
g_noreply == <<"n", "@", "d", ".", "i", "o">>
return_path == <<"r", "@", "d", ".", "i", "o">>

\* def _parse_smtp_addr(addr)
_parse_smtp_addr(addr) ==
    LET addrs == _parse_message_id(addr)
    IN IF addrs # << >> /\ addrs[1] # << >> THEN addrs[1]
       ELSE IF Contains(addr, "@") THEN addr
       ELSE g_noreply

\* def isvalid(addr): EMAIL_VALIDATOR = fev.Email(not_empty=True) accepts
\* user@domain where user has no blank, '@', '<' or '>' and domain is one or
\* more dot-terminated labels followed by a top-level name of two letters or more
isvalid(addr) ==
    /\ addr # << >>
    /\ Contains(addr, "@")
    /\ LET at == CHOOSE i \in 1..Len(addr) : addr[i] = "@" /\ \A j \in 1..(i - 1) : addr[j] # "@"
           user == SubSeq(addr, 1, at - 1)
           labels == Split(SubSeq(addr, at + 1, Len(addr)), ".")
       IN /\ user # << >>
          /\ \A i \in 1..Len(user) : user[i] \notin {" ", "@", "<", ">", "(", ")"}
          /\ Len(labels) >= 2
          /\ \A k \in 1..Len(labels) :
                /\ labels[k] # << >>
                /\ \A i \in 1..Len(labels[k]) : labels[k][i] \in
                      {"a", "b", "c", "d", "i", "n", "o", "r", "t", "u", "v", "w"}
          /\ Len(labels[Len(labels)]) >= 2

\* Header(text, *more_text) for str arguments: the texts joined by one blank
Header(texts) == Join(texts, <<" ">>)

\* AddrHeader(fromaddr) for a str: '"Foo Bar" <foo@bar.com>' is split at its last
\* ' <' and put together again by Header(name, addr)
AddrHeader(fromaddr) ==
    IF \E i \in 1..(Len(fromaddr) - 1) : fromaddr[i] = " " /\ fromaddr[i + 1] = "<"
      THEN LET k == CHOOSE i \in 1..(Len(fromaddr) - 1) :
                       /\ fromaddr[i] = " " /\ fromaddr[i + 1] = "<"
                       /\ \A j \in (i + 1)..(Len(fromaddr) - 1) :
                             ~(fromaddr[j] = " " /\ fromaddr[j + 1] = "<")
           IN Header(<<SubSeq(fromaddr, 1, k - 1),
                       <<"<">> \o SubSeq(fromaddr, k + 2, Len(fromaddr))>>)
      ELSE Header(<<fromaddr>>)

\* message[name] = value appends a header; message[name] reads the first one
SetHeader(headers, name, value) == Append(headers, [name |-> name, value |-> value])

GetHeader(headers, name) ==
    IF \E i \in 1..Len(headers) : headers[i].name = name
      THEN headers[CHOOSE i \in 1..Len(headers) :
                      headers[i].name = name /\ \A j \in 1..(i - 1) : headers[j].name # name].value
      ELSE None

\* in_reply_to and references arrive as None, a str or a list of str
Py(type, val) == [type |-> type, val |-> val]

\* bool(x)
PyTruthy(x) == x.type # "NoneType" /\ x.val # << >>

\* aslist(obj): None gives [], a str is split at blanks, a list is itself
aslist(obj) ==
    IF obj.type = "NoneType" THEN << >>
    ELSE IF obj.type = "str" THEN SelectSeq(Split(obj.val, " "), LAMBDA w : w # << >>)
    ELSE obj.val

Wrapped(r) == <<"<">> \o r \o <<">">>

\* lines 271-279 with the `if not references` test dropped: a reply that also
\* carries references gets References set twice
thread_headers_always_copies(headers, in_reply_to, references) ==
    LET h1 == IF PyTruthy(in_reply_to)
                THEN LET h == SetHeader(headers, "In-Reply-To", Header(<<Wrapped(in_reply_to.val)>>))
                     IN SetHeader(h, "References", GetHeader(h, "In-Reply-To"))
                ELSE headers
    IN IF PyTruthy(references)
         THEN SetHeader(h1, "References",
                        Header([i \in 1..Len(aslist(references)) |-> Wrapped(aslist(references)[i])]))
         ELSE h1

\* sendmail, lines 271-279, for an in_reply_to that is None, empty or a str: the
\* In-Reply-To and References headers
thread_headers(headers, in_reply_to, references) ==
    LET h1 == IF PyTruthy(in_reply_to)
                THEN LET h == SetHeader(headers, "In-Reply-To", Header(<<Wrapped(in_reply_to.val)>>))
                     IN IF ~PyTruthy(references)
                          THEN SetHeader(h, "References", GetHeader(h, "In-Reply-To"))
                          ELSE h
                ELSE headers
    IN IF PyTruthy(references)
         THEN SetHeader(h1, "References",
                        Header([i \in 1..Len(aslist(references)) |-> Wrapped(aslist(references)[i])]))
         ELSE h1

\* sendmail, lines 257-270: the headers set before the threading headers
base_headers(in) ==
    LET h1 == SetHeader(in.message, "To",
                        IF IsSet(in.to) THEN AddrHeader(in.to) ELSE AddrHeader(in.reply_to))
        h2 == SetHeader(h1, "From", AddrHeader(in.fromaddr))
        h3 == SetHeader(h2, "Reply-To", AddrHeader(in.reply_to))
        h4 == SetHeader(h3, "Subject", Header(<<in.subject>>))
        h5 == SetHeader(h4, "Message-ID", Header(<<Wrapped(in.message_id)>>))
        h6 == SetHeader(h5, "Date", <<"formatdate()">>)
        h7 == IF IsSet(in.sender) THEN SetHeader(h6, "Sender", AddrHeader(in.sender)) ELSE h6
    IN IF IsSet(in.cc) THEN SetHeader(h7, "CC", AddrHeader(in.cc)) ELSE h7

\* lines 292-293 without the isvalid filter
valid_smtp_addrs_unfiltered(addrs) ==
    [i \in 1..Len(addrs) |-> _parse_smtp_addr(addrs[i])]

\* smtp_addrs = [a for a in map(_parse_smtp_addr, addrs) if isvalid(a)]
valid_smtp_addrs(addrs) ==
    SelectSeq([i \in 1..Len(addrs) |-> _parse_smtp_addr(addrs[i])], isvalid)

\* message.as_string(): the headers as they stand, then the body
as_string(headers) == [headers |-> headers, body |-> "body"]

NoRaw == <<None, << >>, as_string(<< >>)>>

MailResult(outcome, headers, addrs, raw) ==
    [outcome |-> outcome, headers |-> headers, addrs |-> addrs, raw |-> raw]

\* def sendmail(self, addrs, fromaddr, reply_to, subject, message_id, in_reply_to,
\*              message, sender=None, references=None, cc=None, to=None)
\* up to the call of send_raw: how it ends, the message's headers and the
\* caller's addrs list then, and the arguments send_raw gets
sendmail(in) ==
    IF in.addrs = << >> THEN MailResult("return", in.message, in.addrs, NoRaw)
    ELSE LET addrs == IF IsSet(in.cc) THEN Append(in.addrs, in.cc) ELSE in.addrs
             h == base_headers(in)
         IN IF PyTruthy(in.in_reply_to) /\ in.in_reply_to.type # "str"
              THEN MailResult("TypeError", h, addrs, NoRaw)
              ELSE LET hs == thread_headers(h, in.in_reply_to, in.references)
                       smtp_addrs == valid_smtp_addrs(addrs)
                   IN IF smtp_addrs = << >>
                        THEN MailResult("warning", hs, addrs, NoRaw)
                        ELSE MailResult("send_raw", hs, addrs,
                                        <<return_path, smtp_addrs, as_string(hs)>>)

\* ---- the calls the model makes ----

\* the strings of the calls below: addresses that are plain, bracketed, with a
\* path inside the brackets, a bare user name, undeliverable ones, 'Name <addr>',
\* and two message ids
Str ==
    [u |-> <<"u", "@", "d", ".", "i", "o">>,
     v_bracketed |-> <<"<", "v", "@", "d", ".", "i", "o", ">">>,
     path_bracketed |-> <<"<", "a", "/", "w", "@", "d", ".", "i", "o", ">">>,
     bob |-> <<"b", "o", "b">>,
     bob_bracketed |-> <<"<", "b", "o", "b", ">">>,
     no_tld |-> <<"u", "@", "d">>,
     empty_brackets |-> <<"<", ">">>,
     named |-> <<"t", " ", "<", "t", "@", "d", ".", "i", "o", ">">>,
     r1 |-> <<"r", "1">>,
     r2 |-> <<"r", "2">>]

\* the calls the model makes: a message as encode_email_part hands it over, one
\* addressee, no threading
PlainCall ==
    [addrs |-> <<Str.u>>, fromaddr |-> Str.named, reply_to |-> Str.u,
     subject |-> <<"s">>, message_id |-> <<"m", "1">>, in_reply_to |-> Py("NoneType", << >>),
     message |-> << [name |-> "Content-Type", value |-> <<"text/plain">>],
                    [name |-> "MIME-Version", value |-> <<"1.0">>] >>,
     sender |-> None, references |-> Py("NoneType", << >>), cc |-> None, to |-> None]

\* calls that differ in their recipients (plain, bracketed, with a path inside
\* the brackets, a bare user name, and three that cannot be delivered to), and
\* calls that differ in their threading arguments
MailCalls ==
    { [PlainCall EXCEPT !.addrs = a, !.cc = cc] :
        a \in SeqsUpTo({Str.u, Str.v_bracketed, Str.path_bracketed, Str.bob,
                        Str.bob_bracketed, Str.no_tld, Str.empty_brackets}, MaxAddrs),
        cc \in {None, Str.v_bracketed, Str.no_tld} }
    \cup
    { [PlainCall EXCEPT !.addrs = a, !.in_reply_to = irt, !.references = refs,
                        !.to = to, !.sender = sender] :
        a \in {<< >>, <<Str.u>>, <<Str.no_tld>>},
        irt \in {Py("NoneType", << >>), Py("str", << >>), Py("str", Str.r1),
                 Py("list", << >>), Py("list", <<Str.r1>>)},
        refs \in {Py("NoneType", << >>), Py("list", << >>), Py("str", Str.r1),
                  Py("str", Str.r1 \o <<" ">> \o Str.r2), Py("list", <<Str.r1, Str.r2>>)},
        to \in {None, Str.named}, sender \in {None, Str.u} }

\* one sendmail call; when it gets that far, it enters send_raw
Call_sendmail ==
    /\ mailOut.outcome = "none"
    /\ pc = "idle"
    /\ mailOut' = sendmail(mailIn)
    /\ UNCHANGED mailIn
    /\ IF sendmail(mailIn).outcome = "send_raw"
         THEN send_raw(sendmail(mailIn).raw)
         ELSE UNCHANGED <<smtpVars, addrVars, siteVars, facetVars, msgVars, adminVars,
                          aclVars, parseVars>>

\* before the call: its arguments are one of inputs
MailInit(inputs) ==
    /\ mailIn \in inputs
    /\ mailOut = MailResult("none", << >>, << >>, NoRaw)

MailNext ==
    \/ Call_sendmail
    \/ _connect
    \/ \E e \in SendErrors \cup {NoExc} : first_sendmail(e)
    \/ \E e \in SendErrors \cup {NoExc} : second_sendmail(e)

---------------------------------------------------------------------------
(* parse_address                                                          *)

MaxLabels == 4

\* forgemail.domain and forgemail.domain.alternates (aslist: a list of non-empty
\* words), as deployments set them
AddrConfigs ==
    { [common_suffix |-> <<".", "f">>, common_suffix_alt |-> << <<".", "x", ".", "f">>, <<".", "g">> >>],
      [common_suffix |-> <<".", "x", ".", "f">>, common_suffix_alt |-> << <<".", "f">> >>],
      [common_suffix |-> <<".", "f">>, common_suffix_alt |-> << >>] }

\* The forge's projects by URL path (neighborhood, project, subproject) and the
\* mount points of the tools installed in each.
Projects ==
    { [path |-> << <<"p">>, <<"t">> >>, apps |-> { <<"w">>, <<"t">> }],
      [path |-> << <<"p">>, <<"t">>, <<"s">> >>, apps |-> { <<"w">> }] }

\* Python's None where a project / an app is expected
NoProject == [path |-> << >>, apps |-> {}]
NoApp == [project |-> << >>, mount_point |-> << >>]

\* h.find_project(url_path): the project with the longest path that is a prefix of
\* url_path's components, and the components left over; (None, ...) when there is none
find_project(url_path) ==
    LET parts == Split(Tail(url_path), "/")
        hits == {P \in Projects : StartsWith(parts, P.path)}
    IN IF hits = {} THEN [project |-> NoProject, mount_point |-> parts]
       ELSE LET P == CHOOSE Q \in hits : \A R \in hits : Len(R.path) <= Len(Q.path)
            IN [project |-> P, mount_point |-> SubSeq(parts, Len(P.path) + 1, Len(parts))]

\* project.app_instance(mount_point): the app mounted there, or None
app_instance(project, mount_point) ==
    IF mount_point \in project.apps
      THEN [project |-> project.path, mount_point |-> mount_point]
      ELSE NoApp

AddressException(msg) ==
    [kind |-> "AddressException", msg |-> msg, userpart |-> <<>>,
     project |-> NoProject.path, app |-> NoApp]

RECURSIVE strip_suffix(_, _)
\* the for/else over the suffix list: the domain without the first suffix it ends
\* with (break), or the else branch when the loop ends without a break
strip_suffix(domain, suffixes) ==
    IF Len(suffixes) = 0 THEN [matched |-> FALSE, domain |-> domain]
    ELSE IF EndsWith(domain, Head(suffixes))
           \* domain[:-len(suffix)]; [:-0] is the empty string
           THEN [matched |-> TRUE,
                 domain |-> IF Len(Head(suffixes)) = 0 THEN <<>>
                            ELSE SubSeq(domain, 1, Len(domain) - Len(Head(suffixes)))]
           ELSE strip_suffix(domain, Tail(suffixes))

\* the rest of parse_address once the suffix list and the label order are fixed
route(userpart, stripped, labels) ==
    IF ~stripped.matched THEN AddressException("Unknown domain")
    ELSE
    LET path == Join(labels, <<"/">>)
        found == find_project(<<"/">> \o path)
    IN IF found.project = NoProject THEN AddressException("Unknown project")
       ELSE IF Len(found.mount_point) # 1 THEN AddressException("Unknown tool")
       ELSE LET app == app_instance(found.project, found.mount_point[1])
            IN IF app = NoApp THEN AddressException("Unknown tool")
               ELSE [kind |-> "ok", msg |-> "", userpart |-> userpart,
                     project |-> found.project.path, app |-> app]

\* parse_address with the alternates tried before the common suffix
parse_address_alternates_first(addr, config) ==
    LET ud == Split(addr, "@")
        stripped == strip_suffix(ud[2], config.common_suffix_alt \o <<config.common_suffix>>)
    IN route(ud[1], stripped, Reversed(Split(stripped.domain, ".")))

parse_address(addr, config) ==
    LET ud == Split(addr, "@")
    IN IF Len(ud) # 2     \* userpart, domain = addr.split('@')
         THEN [kind |-> "ValueError", msg |-> "", userpart |-> <<>>,
               project |-> NoProject.path, app |-> NoApp]
       ELSE
    LET userpart == ud[1]
        stripped == strip_suffix(ud[2], <<config.common_suffix>> \o config.common_suffix_alt)
    IN route(userpart, stripped, Reversed(Split(stripped.domain, ".")))

\* the parts before '@' and the domains mail arrives for
UserParts == { <<"u">>, <<>>, <<"4", "2">> }
Labels == { <<>>, <<"p">>, <<"t">>, <<"w">>, <<"s">> }
DomainTails == { <<>>, <<".", "f">>, <<".", "x", ".", "f">>, <<".", "g">>, <<"f">> }
Domains ==
    { Join(ls, <<".">>) \o t : ls \in SeqsUpTo(Labels, MaxLabels), t \in DomainTails }

NoAddr == [user |-> <<>>, domain |-> <<>>,
           cfg |-> [common_suffix |-> <<>>, common_suffix_alt |-> <<>>]]

NoResult == [kind |-> "none", msg |-> "", userpart |-> <<>>,
             project |-> NoProject.path, app |-> NoApp]

\* a call of parse_address(user@domain) under the configuration in force
Call_parse_address ==
    /\ addrOut = NoResult
    /\ addrIn # NoAddr
    /\ addrOut' = parse_address(addrIn.user \o <<"@">> \o addrIn.domain, addrIn.cfg)
    /\ UNCHANGED <<addrIn, smtpVars, siteVars, facetVars, msgVars, adminVars, mailVars, aclVars, parseVars>>

AddrIdle ==
    /\ addrIn = NoAddr
    /\ addrOut = NoResult

\* the address and the configuration of the call are drawn here
AddrInit ==
    /\ addrIn \in [user : UserParts, domain : Domains, cfg : AddrConfigs]
    /\ addrOut = NoResult

AddrNext == Call_parse_address

---------------------------------------------------------------------------
(* SitemapEntry.extend                                                    *)

MaxNodes == 4
MaxEntries == 1

SiteLabels == {"A", "B"}
SiteUrls == {"u1", "u2"}

\* SitemapEntry(label, url, children)
SitemapEntry(label, url, ch) == [label |-> label, url |-> url, children |-> ch]

SiteLeaves == {SitemapEntry(l, u, << >>) : l \in SiteLabels, u \in SiteUrls}

\* the entries a caller passes: each with at most one child of its own
SiteEntries ==
    {SitemapEntry(l, u, ch) : l \in SiteLabels, u \in SiteUrls, ch \in SeqsUpTo(SiteLeaves, 1)}

RECURSIVE SiteSize(_)
\* number of SitemapEntry objects in a list of trees
SiteSize(ch) ==
    IF Len(ch) = 0 THEN 0
    ELSE 1 + SiteSize(Head(ch).children) + SiteSize(Tail(ch))

\* child_index = dict((ch.label, ch) for ch in self.children): for each label the
\* position of the last child carrying it (0: no such child)
child_index(ch) ==
    [l \in SiteLabels |->
        IF \E i \in 1..Len(ch) : ch[i].label = l
          THEN CHOOSE i \in 1..Len(ch) :
                   ch[i].label = l /\ \A j \in (i + 1)..Len(ch) : ch[j].label # l
          ELSE 0]

RECURSIVE extend_loop(_, _, _)
\* the for loop of extend over sitemap_entries, with the recursive extend of a match
extend_loop(ch, index, es) ==
    IF Len(es) = 0 THEN ch
    ELSE LET e == Head(es)
             match == index[e.label]          \* child_index.get(e.label)
         IN IF match # 0 /\ ch[match].url = e.url
              THEN extend_loop(
                       [ch EXCEPT ![match].children =
                            extend_loop(ch[match].children,
                                        child_index(ch[match].children), e.children)],
                       index, Tail(es))
              ELSE extend_loop(Append(ch, e),
                               [index EXCEPT ![e.label] = Len(ch) + 1], Tail(es))

\* SitemapEntry.extend(sitemap_entries) on a receiver whose children are ch
extend(ch, es) == extend_loop(ch, child_index(ch), es)

Call_extend(es) ==
    /\ SiteSize(extend(children, es)) <= MaxNodes
    /\ siteIn' = [called |-> TRUE, children |-> children, entries |-> es]
    /\ children' = extend(children, es)
    /\ UNCHANGED <<smtpVars, addrVars, facetVars, msgVars, adminVars, mailVars, aclVars, parseVars>>

SiteInit ==
    /\ children = << >>                      \* self.children = children or []
    /\ siteIn = [called |-> FALSE, children |-> << >>, entries |-> << >>]

SiteNext == \E es \in SeqsUpTo(SiteEntries, MaxEntries) : Call_extend(es)

---------------------------------------------------------------------------
(* get_facets                                                             *)

MaxPairs == 2
MaxTickets == 2

\* FACET_PARAMS['facet.field']
F_milestone == <<"_", "m", "i", "l", "e", "s", "t", "o", "n", "e", "_", "s">>
F_status == <<"s", "t", "a", "t", "u", "s", "_", "s">>
F_assigned_to == <<"a", "s", "s", "i", "g", "n", "e", "d", "_", "t", "o", "_", "s">>
F_reported_by == <<"r", "e", "p", "o", "r", "t", "e", "d", "_", "b", "y", "_", "s">>
FACET_PARAMS == {F_milestone, F_status, F_assigned_to, F_reported_by}

EmptyDict == [x \in {} |-> 0]

\* positions at which sep occurs in s
Occurrences(s, sep) ==
    {i \in 1..(Len(s) - Len(sep) + 1) : SubSeq(s, i, i + Len(sep) - 1) = sep}

\* s.rstrip(sep): the characters of sep stripped from the right end
RECURSIVE rstrip_chars(_, _)
rstrip_chars(s, sep) ==
    IF Len(s) > 0 /\ \E i \in 1..Len(sep) : sep[i] = s[Len(s)]
      THEN rstrip_chars(SubSeq(s, 1, Len(s) - 1), sep)
      ELSE s

\* s.rsplit(sep, 1)[0]: what precedes the last occurrence of sep, or all of s
rsplit_first(s, sep) ==
    IF Occurrences(s, sep) = {} THEN s
    ELSE LET i == CHOOSE k \in Occurrences(s, sep) : \A j \in Occurrences(s, sep) : j <= k
         IN SubSeq(s, 1, i - 1)

\* [(values[i], values[i+1]) for i in xrange(0, len(values), 2)]
pair_up(values) == [i \in 1..(Len(values) \div 2) |-> <<values[2 * i - 1], values[2 * i]>>]

RECURSIVE available_values(_, _)
\* the loop over final_result: solr_data[facet_name] of each ticket that has it
available_values(final_result, facet_name) ==
    IF Len(final_result) = 0 THEN << >>
    ELSE LET solr_data == Head(final_result)      \* ticket.index()
         IN (IF facet_name \in DOMAIN solr_data THEN <<solr_data[facet_name]>> ELSE << >>)
            \o available_values(Tail(final_result), facet_name)

\* v in a list
InList(v, l) == \E i \in 1..Len(l) : l[i] = v

RECURSIVE filter_values(_, _)
\* filter(lambda v: v[0] in available_values, values)
filter_values(values, avail) ==
    IF Len(values) = 0 THEN << >>
    ELSE (IF InList(Head(values)[1], avail) THEN <<Head(values)>> ELSE << >>)
         \o filter_values(Tail(values), avail)

\* the body of the loop over facet_fields for one (facet_name, values) item
facet_values(values, facet_name, final_result) ==
    IF ~final_result.isNone /\ Len(final_result.tickets) > 0     \* if final_result:
      THEN filter_values(pair_up(values), available_values(final_result.tickets, facet_name))
      ELSE pair_up(values)

get_facets(solr_hit, final_result) ==
    IF solr_hit.isNone THEN EmptyDict
    ELSE LET fields == solr_hit.facet_fields
             keys == {rsplit_first(f, <<"_", "s">>) : f \in DOMAIN fields}
         IN [k \in keys |->
                LET f == CHOOSE g \in DOMAIN fields : rsplit_first(g, <<"_", "s">>) = k
                IN facet_values(fields[f], f, final_result)]

\* facet values and counts as solr returns them
FacetPairs == { <<"open", 1>>, <<"open", 2>>, <<"closed", 1>> }

RECURSIVE Flatten(_)
Flatten(ps) == IF Len(ps) = 0 THEN << >> ELSE Head(ps) \o Flatten(Tail(ps))

FlatLists == {Flatten(ps) : ps \in SeqsUpTo(FacetPairs, MaxPairs)}

\* solr_hit.facets['facet_fields']: one flat list per facet field asked for
FacetFieldDicts ==
    {EmptyDict}
    \cup {f :> l : f \in FACET_PARAMS, l \in FlatLists}
    \cup {(F_status :> l1) @@ (F_milestone :> l2) : l1 \in FlatLists, l2 \in FlatLists}

SolrHits ==
    {[isNone |-> TRUE, facet_fields |-> EmptyDict]}
    \cup {[isNone |-> FALSE, facet_fields |-> d] : d \in FacetFieldDicts}

\* ticket.index() of the tickets a result page may hold
TicketIndexes ==
    { (F_status :> "open") @@ (F_milestone :> "closed"),
      F_status :> "closed",
      (F_assigned_to :> "open") @@ (F_reported_by :> "closed"),
      EmptyDict }

FinalResults ==
    {[isNone |-> TRUE, tickets |-> << >>]}
    \cup {[isNone |-> FALSE, tickets |-> ts] : ts \in SeqsUpTo(TicketIndexes, MaxTickets)}

Call_get_facets ==
    /\ ~facetOut.called
    /\ ~facetIn.idle
    /\ facetOut' = [called |-> TRUE, result |-> get_facets(facetIn.solr_hit, facetIn.final_result)]
    /\ UNCHANGED <<facetIn, smtpVars, addrVars, siteVars, msgVars, adminVars, mailVars, aclVars, parseVars>>

FacetIdle ==
    /\ facetIn = [idle |-> TRUE,
                  solr_hit |-> [isNone |-> TRUE, facet_fields |-> EmptyDict],
                  final_result |-> [isNone |-> TRUE, tickets |-> << >>]]
    /\ facetOut = [called |-> FALSE, result |-> EmptyDict]

\* the arguments of the call are drawn here
FacetInit ==
    /\ facetIn \in [idle : {FALSE}, solr_hit : SolrHits, final_result : FinalResults]
    /\ facetOut = [called |-> FALSE, result |-> EmptyDict]

FacetNext == Call_get_facets

---------------------------------------------------------------------------
(* Application.handle_artifact_message                                    *)

MaxMessages == 3

\* artifact.get_discussion_thread(message): each artifact has its own thread
Artifacts == {"ticket1", "ticket2"}
get_discussion_thread(artifact) == IF artifact = "ticket1" THEN "thread1" ELSE "thread2"

\* a parsed message part: message.get('filename') is None ("None") when the part
\* names no file; the payload is a string, possibly empty
Messages ==
    [message_id : {"m1", "m2"}, filename : {"None", "", "a.txt"}, payload : {"", "body"}]

\* Python truthiness of message.get('filename') and message['payload']
Truthy(x) == x \notin {"None", ""}

\* self.PostClass.query.get(_id=message_id): position of the post, 0 for None
query_get(ps, message_id) ==
    IF \E i \in 1..Len(ps) : ps[i].id = message_id
      THEN CHOOSE i \in 1..Len(ps) :
               ps[i].id = message_id /\ \A j \in 1..(i - 1) : ps[j].id # message_id
      ELSE 0

\* thd.post(message_id=..., text=...): a new Post document in thread thd
thd_post(ps, thd, message_id, text) ==
    Append(ps, [id |-> message_id, thread |-> thd, text |-> text])

\* AttachmentClass.save_attachment(filename, ..., post_id=...) and
\* post.attach('alternate', ..., post_id=...): a new attachment document
save_attachment(as, filename, thd, post_id) ==
    Append(as, [filename |-> filename, thread |-> thd, post_id |-> post_id])

\* handle_artifact_message without the "Handle duplicates" lookup
handle_effect_no_duplicate_check(artifact, message) ==
    LET thd == get_discussion_thread(artifact)
        message_id == message.message_id
    IN IF Truthy(message.filename)
         THEN [posts |-> posts,
               attachments |-> save_attachment(attachments, message.filename, thd, message_id)]
       ELSE [posts |-> thd_post(posts, thd, message_id,
                                IF Truthy(message.payload) THEN message.payload
                                ELSE "--no text body--"),
             attachments |-> attachments]

\* what handle_artifact_message leaves behind: [posts, attachments]
handle_effect(artifact, message) ==
    LET thd == get_discussion_thread(artifact)
        message_id == message.message_id
    IN IF Truthy(message.filename)
         THEN [posts |-> posts,
               attachments |-> save_attachment(attachments, message.filename, thd, message_id)]
       ELSE IF query_get(posts, message_id) # 0
         THEN [posts |-> posts,
               attachments |-> save_attachment(attachments, "alternate", thd, message_id)]
       ELSE [posts |-> thd_post(posts, thd, message_id,
                                IF Truthy(message.payload) THEN message.payload
                                ELSE "--no text body--"),
             attachments |-> attachments]

handle_artifact_message(artifact, message) ==
    /\ msgCount < MaxMessages
    /\ msgCount' = msgCount + 1
    /\ msgLast' = [called |-> TRUE, artifact |-> artifact, message |-> message,
                   posts |-> posts, attachments |-> attachments]
    /\ posts' = handle_effect(artifact, message).posts
    /\ attachments' = handle_effect(artifact, message).attachments
    /\ UNCHANGED <<smtpVars, addrVars, siteVars, facetVars, adminVars, mailVars, aclVars, parseVars>>

MsgInit ==
    /\ posts = << >>
    /\ attachments = << >>
    /\ msgLast = [called |-> FALSE, artifact |-> "ticket1",
                  message |-> [message_id |-> "m1", filename |-> "None", payload |-> ""],
                  posts |-> << >>, attachments |-> << >>]
    /\ msgCount = 0

MsgNext == \E artifact \in Artifacts, message \in Messages :
               handle_artifact_message(artifact, message)

---------------------------------------------------------------------------
(* Application.admin_menu and DefaultAdminController.configure            *)

\* option values are written the way Python prints them: "True", "0", "text"
ConfigOption(name, ming_type, default) ==
    [name |-> name, ming_type |-> ming_type, default |-> default]

\* Application.config_options: the three base options
BaseOptions ==
    << ConfigOption("mount_point", "str", "app"),
       ConfigOption("mount_label", "str", "app"),
       ConfigOption("ordinal", "int", "0") >>

\* The Application subclasses installed in the project: the project's admin tool, a
\* tool with one custom option, and a tool that declares no permissions and has
\* two custom options.
AppClasses ==
    [admin |-> [tool_name |-> "admin", permissions |-> <<"configure", "admin">>,
                config_options |-> BaseOptions],
     wiki  |-> [tool_name |-> "wiki", permissions |-> <<"read", "admin">>,
                config_options |-> BaseOptions \o <<ConfigOption("show_discussion", "bool", "True")>>],
     link  |-> [tool_name |-> "link", permissions |-> << >>,
                config_options |-> BaseOptions \o <<ConfigOption("url", "str", ""),
                                                    ConfigOption("limit", "int", "0")>>]]

MountPoints == DOMAIN AppClasses

\* positions in config_options of the options configure does not skip
CustomOptions(app) ==
    {i \in 1..Len(AppClasses[app].config_options) :
        \A b \in 1..Len(BaseOptions) : AppClasses[app].config_options[i] # BaseOptions[b]}

\* default_options(), with mount_point and mount_label as given at install time
InstalledOptions(app) ==
    LET co == AppClasses[app].config_options
    IN [n \in {co[i].name : i \in 1..Len(co)} |->
           IF n \in {"mount_point", "mount_label"} THEN app
           ELSE co[CHOOSE i \in 1..Len(co) : co[i].name = n].default]

SitemapLink(label, mount_point, page) ==
    [label |-> label, url |-> <<"admin", mount_point, page>>]

\* admin_menu without the `self.permissions and` test
admin_menu_ignores_permissions(app, force_options, has_admin) ==
    LET mount_point == options[app]["mount_point"]
    IN (IF has_admin
          THEN <<SitemapLink("Permissions", mount_point, "permissions")>> ELSE << >>)
       \o (IF force_options \/ Len(AppClasses[app].config_options) > 3
             THEN <<SitemapLink("Options", mount_point, "options")>> ELSE << >>)
       \o <<SitemapLink("Label", mount_point, "edit_label")>>

\* Application.admin_menu(force_options); has_admin is has_access(c.project, 'admin')()
admin_menu(app, force_options, has_admin) ==
    LET mount_point == options[app]["mount_point"]
    IN (IF Len(AppClasses[app].permissions) > 0 /\ has_admin
          THEN <<SitemapLink("Permissions", mount_point, "permissions")>> ELSE << >>)
       \o (IF force_options \/ Len(AppClasses[app].config_options) > 3
             THEN <<SitemapLink("Options", mount_point, "options")>> ELSE << >>)
       \o <<SitemapLink("Label", mount_point, "edit_label")>>

\* asbool(val or False) for the values a form submits
asbool(val) == IF val \in {"true", "yes", "on", "1"} THEN "True" ELSE "False"

\* asint(val or 0) for the values a form submits
asint(val) == IF val = "" THEN "0" ELSE val

\* the values a form field may carry for an option of each type
Submitted(ming_type) ==
    IF ming_type = "bool" THEN {"", "true", "false"}
    ELSE IF ming_type = "int" THEN {"", "7"}
    ELSE {"", "text"}

\* the keyword arguments of a POST to configure: delete (absent: "None") and one value
\* per custom option of the app
ConfigureForms(app) ==
    LET co == AppClasses[app].config_options
    IN {[delete |-> d, values |-> v] :
           d \in {"None", "", "on"},
           v \in {f \in [{co[i].name : i \in CustomOptions(app)} -> {"", "true", "false", "7", "text"}] :
                     \A i \in CustomOptions(app) : f[co[i].name] \in Submitted(co[i].ming_type)}}

RECURSIVE write_options(_, _, _, _)
\* the for loop over self.app.config_options, from position i on: the options after
\* the writes, and the names written in order
write_options(app, kw, i, acc) ==
    LET co == AppClasses[app].config_options
    IN IF i > Len(co) THEN acc
       ELSE IF \E b \in 1..Len(BaseOptions) : co[i] = BaseOptions[b]
         THEN write_options(app, kw, i + 1, acc)            \* continue
       ELSE LET opt == co[i]
                val == kw.values[opt.name]                  \* kw.get(opt.name, '')
                conv == IF opt.ming_type = "bool" THEN asbool(val)
                        ELSE IF opt.ming_type = "int" THEN asint(val)
                        ELSE val
            IN write_options(app, kw, i + 1,
                   [options |-> [acc.options EXCEPT ![opt.name] = conv],
                    writes |-> Append(acc.writes, opt.name)])

Response(status, flash, redirect, uninstalled, written, opts) ==
    [status |-> status, flash |-> flash, redirect |-> redirect,
     uninstall_app |-> uninstalled, writes |-> written, options |-> opts]

\* configure in which redirect('.') returns instead of raising: the admin tool's
\* delete falls through to uninstall_app
configure_redirect_returns(app, allowed, kw) ==
    IF ~allowed THEN Response("403", "", "", << >>, << >>, options[app])
    ELSE IF kw.delete \notin {"None", ""}
           THEN Response("302",
                         IF AppClasses[app].tool_name = "admin"
                           THEN "Cannot delete the admin tool, sorry...." ELSE "",
                         "..", <<options[app]["mount_point"]>>, << >>, options[app])
    ELSE LET done == write_options(app, kw, 1, [options |-> options[app], writes |-> << >>])
         IN Response("302", "", "referer", << >>, done.writes, done.options)

\* DefaultAdminController.configure(**kw); allowed is the outcome of
\* require_access(self.app, 'configure'), which raises when access is denied
configure(app, allowed, kw) ==
    IF ~allowed THEN Response("403", "", "", << >>, << >>, options[app])
    ELSE
    LET is_admin == AppClasses[app].tool_name = "admin"
    IN IF kw.delete \notin {"None", ""}                      \* kw.pop('delete', False)
         THEN IF is_admin
                THEN \* flash(...); redirect('.') raises
                     Response("302", "Cannot delete the admin tool, sorry....", ".",
                              << >>, << >>, options[app])
                ELSE \* c.project.uninstall_app(mount_point); redirect('..')
                     Response("302", "", "..", <<options[app]["mount_point"]>>,
                              << >>, options[app])
       ELSE LET done == write_options(app, kw, 1, [options |-> options[app], writes |-> << >>])
            IN Response("302", "", IF is_admin THEN "admin_home" ELSE "referer",
                        << >>, done.writes, done.options)

\* c.project.uninstall_app(mount_point): the tool is no longer installed
uninstall_app(inst, mount_points) ==
    inst \ {mount_points[i] : i \in 1..Len(mount_points)}

NoResponse == Response("", "", "", << >>, << >>, [x \in {} |-> ""])
NoForm == [delete |-> "None", values |-> [x \in {} |-> ""]]

Request(op, app, allowed, kw, force, before, links, resp) ==
    [op |-> op, app |-> app, allowed |-> allowed, kw |-> kw, force_options |-> force,
     before |-> before, links |-> links, response |-> resp]

Call_configure(app, allowed, kw) ==
    /\ app \in installed
    /\ adminLast' = Request("configure", app, allowed, kw, FALSE, options[app], << >>,
                            configure(app, allowed, kw))
    /\ options' = [options EXCEPT ![app] = configure(app, allowed, kw).options]
    /\ installed' = uninstall_app(installed, configure(app, allowed, kw).uninstall_app)
    /\ UNCHANGED <<smtpVars, addrVars, siteVars, facetVars, msgVars, mailVars, aclVars, parseVars>>

Call_admin_menu(app, force_options, has_admin) ==
    /\ app \in installed
    /\ adminLast' = Request("admin_menu", app, has_admin, NoForm, force_options, options[app],
                            admin_menu(app, force_options, has_admin), NoResponse)
    /\ UNCHANGED <<installed, options>>
    /\ UNCHANGED <<smtpVars, addrVars, siteVars, facetVars, msgVars, mailVars, aclVars, parseVars>>

AdminInit ==
    /\ installed = MountPoints
    /\ options = [app \in MountPoints |-> InstalledOptions(app)]
    /\ adminLast = Request("none", "admin", FALSE, NoForm, FALSE, [x \in {} |-> ""], << >>, NoResponse)

AdminNext ==
    \/ \E app \in MountPoints, allowed \in BOOLEAN :
          \E kw \in ConfigureForms(app) : Call_configure(app, allowed, kw)
    \/ \E app \in MountPoints, force_options \in BOOLEAN, has_admin \in BOOLEAN :
          Call_admin_menu(app, force_options, has_admin)

---------------------------------------------------------------------------
(* DefaultAdminController.update                                          *)

MaxCards == 2

\* the permissions of the application that the cards are about
Permissions == {"read", "admin"}

\* ObjectId(s) and str(oid)
ObjectId(s) == [oid |-> s]
str(oid) == oid.oid

\* model.ACE: ACE.allow(role_id, permission) is ACE("ALLOW", role_id, permission)
ACE(access, role_id, permission) ==
    [access |-> access, role_id |-> role_id, permission |-> permission]

\* a form field of a card: left out ("absent"), one string s, or a list l of strings
Field(type, s, l) == [type |-> type, s |-> s, l |-> l]

\* args.get(name, []) followed by `if isinstance(x, basestring): x = [x]`
id_list(field) ==
    IF field.type = "absent" THEN << >>
    ELSE IF field.type = "str" THEN <<field.s>>
    ELSE field.l

\* del_group_ids of one card: the roles of the old entries for perm that
\* group_ids does not list, in old_acl order
del_group_ids(old_acl, perm, group_ids) ==
    LET dropped == SelectSeq(old_acl, LAMBDA a : a.permission = perm
                                                  /\ ~Contains(group_ids, str(a.role_id)))
    IN [i \in 1..Len(dropped) |-> str(dropped[i].role_id)]

\* model.AuditLog.log('updated "%s" permission: "%s" => "%s" for %s' % ...)
AuditRecord(perm, old_ids, new_ids, mount_point) ==
    [permission |-> perm, old |-> old_ids, new |-> new_ids, mount_point |-> mount_point]

\* the body of `for args in card` (lines 670-692), form being args; state is
\* [acl, log] so far
update_card(state, old_acl, form, mount_point) ==
    LET perm == form.id
        new_group_ids == id_list(form.new)
        group_ids == id_list(form.value)
        dels == del_group_ids(old_acl, perm, group_ids)
        role_ids == [i \in 1..Len(group_ids \o new_group_ids) |->
                        ObjectId((group_ids \o new_group_ids)[i])]
    IN [acl |-> state.acl \o [i \in 1..Len(role_ids) |-> ACE("ALLOW", role_ids[i], perm)],
        log |-> IF new_group_ids # << >> \/ dels # << >>
                  THEN Append(state.log, AuditRecord(perm, group_ids \o dels,
                                                     group_ids \o new_group_ids, mount_point))
                  ELSE state.log]

RECURSIVE update_loop(_, _, _, _)
\* for args in card: ...
update_loop(state, old_acl, card, mount_point) ==
    IF card = << >> THEN state
    ELSE update_loop(update_card(state, old_acl, Head(card), mount_point),
                     old_acl, Tail(card), mount_point)

\* def update(self, card=None, **kw): has_admin is whether the caller passes
\* has_access(c.project, 'admin'); the method never asks.  card = None makes
\* `for args in card` raise after the list was emptied.
update(old_acl, has_admin, card_given, card, mount_point) ==
    IF ~card_given
      THEN [acl |-> << >>, log |-> << >>, access_checks |-> << >>, status |-> "TypeError"]
      ELSE LET r == update_loop([acl |-> << >>, log |-> << >>], old_acl, card, mount_point)
           IN [acl |-> r.acl, log |-> r.log, access_checks |-> << >>, status |-> "302"]

\* ---- the requests the model makes ----

Cards ==
    [id : Permissions,
     value : {Field("absent", "", << >>), Field("str", "r1", << >>), Field("list", "", << >>),
              Field("list", "", <<"r1", "r2">>)},
     new : {Field("absent", "", << >>), Field("str", "r2", << >>), Field("list", "", <<"r1">>)}]

\* ACLs an application can have when the request arrives: as installed, with an
\* entry that denies, and with an entry for a permission the tool no longer has
InitialAcls ==
    { << >>,
      <<ACE("ALLOW", ObjectId("r1"), "read"), ACE("ALLOW", ObjectId("r2"), "admin")>>,
      <<ACE("ALLOW", ObjectId("r1"), "read"), ACE("DENY", ObjectId("r2"), "read")>>,
      <<ACE("ALLOW", ObjectId("r1"), "old"), ACE("ALLOW", ObjectId("r2"), "read")>> }

AclRequest(called, has_admin, card_given, card, before, status, checks) ==
    [called |-> called, has_admin |-> has_admin, card_given |-> card_given, card |-> card,
     before |-> before, status |-> status, access_checks |-> checks]

Call_update(has_admin, card_given, card) ==
    /\ ~aclLast.called
    /\ LET r == update(acl, has_admin, card_given, card, "wiki")
       IN /\ acl' = r.acl
          /\ auditLog' = auditLog \o r.log
          /\ aclLast' = AclRequest(TRUE, has_admin, card_given, card, acl, r.status,
                                   r.access_checks)
    /\ UNCHANGED <<smtpVars, addrVars, siteVars, facetVars, msgVars, adminVars,
                   mailVars, parseVars>>

\* before the request: config.acl is one of acls
AclInit(acls) ==
    /\ acl \in acls
    /\ auditLog = << >>
    /\ aclLast = AclRequest(FALSE, FALSE, FALSE, << >>, << >>, "", << >>)

AclNext ==
    \E has_admin \in BOOLEAN :
        \/ \E card \in SeqsUpTo(Cards, MaxCards) : Call_update(has_admin, TRUE, card)
        \/ Call_update(has_admin, FALSE, << >>)

---------------------------------------------------------------------------
(* parse_message                                                          *)

MaxParts == 2

\* h.gen_message_id(): an id no header carries
gen_message_id == <<"gen_message_id()">>

\* the payload key (lines 163-166, 169-172): part.get_payload(decode=True) is
\* None for a multipart container and bytes otherwise, and six.ensure_text
\* makes a str of it when part.get_content_maintype() is 'text'
payload_of(part) ==
    LET payload == IF part.multipart THEN [type |-> "NoneType", data |-> ""]
                   ELSE [type |-> "bytes", data |-> part.body]
        maintype == IF part.content_type = "text/plain" THEN "text"
                    ELSE IF part.content_type = "image/png" THEN "image"
                    ELSE "multipart"
    IN IF maintype = "text" THEN [type |-> "str", data |-> payload.data] ELSE payload

\* def parse_message(data), from the parsed email.message.Message on
parse_message(msg) ==
    LET ids == _parse_message_id(msg.headers["Message-ID"])
        message_id == IF ids = << >> THEN gen_message_id ELSE ids[1]
        in_reply_to == _parse_message_id(msg.headers["In-Reply-To"])
        references == _parse_message_id(msg.headers["References"])
        dpart(part) == [headers |-> part.headers,
                        message_id |-> message_id,
                        in_reply_to |-> in_reply_to,
                        references |-> references,
                        content_type |-> part.content_type,
                        filename |-> part.filename,
                        payload |-> payload_of(part)]
        \* the parts of msg.walk(): the message itself, then its subparts
        walked == <<[msg EXCEPT !.parts = << >>]>> \o msg.parts
        parts == [i \in 1..Len(walked) |-> dpart(walked[i])]
    IN IF msg.multipart
         THEN [multipart |-> TRUE, headers |-> msg.headers, message_id |-> message_id,
               in_reply_to |-> in_reply_to, references |-> references, parts |-> parts]
         ELSE [multipart |-> FALSE, headers |-> msg.headers, message_id |-> message_id,
               in_reply_to |-> in_reply_to, references |-> references,
               payload |-> payload_of(msg)]

\* ---- the messages the model parses ----

\* header values: one id, an id behind a path, no brackets, two ids after some
\* text, empty brackets, an unclosed bracket, nested brackets
Hdr ==
    [m1 |-> <<"<", "m", "1", ">">>,
     path_m1 |-> <<"<", "a", "/", "b", "/", "m", "1", ">">>,
     bare |-> <<"m", "1">>,
     two |-> <<"x", "<", "m", "1", ">", " ", "<", "a", "/", "m", "2", ">">>,
     empty |-> <<"<", ">">>,
     open |-> <<"<", "m", "1">>,
     nested |-> <<"<", "<", "m", "1", ">", ">">>]

\* the Message-ID, In-Reply-To and References headers of a message
IdHeaders ==
    { [h \in {"Message-ID", "In-Reply-To", "References"} |->
          IF h = "Message-ID" THEN m ELSE IF h = "In-Reply-To" THEN i ELSE r] :
      m \in {None, Hdr.m1, Hdr.path_m1, Hdr.bare, Hdr.two, Hdr.empty, Hdr.open, Hdr.nested},
      i \in {None, Hdr.m1, Hdr.two, Hdr.bare},
      r \in {None, Hdr.two, Hdr.path_m1} }

Part(content_type, filename, body) ==
    [headers |-> [h \in {"Message-ID", "In-Reply-To", "References"} |-> None],
     multipart |-> FALSE, content_type |-> content_type,
     filename |-> filename, body |-> body, parts |-> << >>]

LeafParts == {Part("text/plain", "None", "hello"), Part("image/png", "a.png", "PNG")}

ParsedMessages ==
    { [headers |-> hs, multipart |-> FALSE, content_type |-> p.content_type,
       filename |-> p.filename, body |-> p.body, parts |-> << >>] :
        hs \in IdHeaders, p \in LeafParts }
    \cup
    { [headers |-> hs, multipart |-> TRUE, content_type |-> "multipart/mixed",
       filename |-> "None", body |-> "", parts |-> ps] :
        hs \in IdHeaders, ps \in SeqsUpTo(LeafParts, MaxParts) }

Call_parse_message ==
    /\ ~parseOut.called
    /\ parseOut' = [called |-> TRUE, result |-> parse_message(parseIn)]
    /\ UNCHANGED <<parseIn, smtpVars, addrVars, siteVars, facetVars, msgVars, adminVars,
                   mailVars, aclVars>>

\* before the call: the message is one of msgs
ParseInit(msgs) ==
    /\ parseIn \in msgs
    /\ parseOut = [called |-> FALSE, result |-> [k \in {} |-> ""]]

---------------------------------------------------------------------------
(* Initial states and specifications                                      *)

SmtpInit ==
    /\ client = 0
    /\ created = 0
    /\ pc = "idle"
    /\ args = NoArgs
    /\ clientAtCall = 0
    /\ trace = <<>>
    /\ raised = NoExc
    /\ calls = 0
    /\ connects = 0
    /\ attempts = 0
    /\ usedConns = {}
    /\ failures = 0

SmtpNext ==
    \/ \E a \in ArgSet : send_raw(a) /\ UNCHANGED mailVars
    \/ _connect
    \/ \E e \in SendErrors \cup {NoExc} : first_sendmail(e)
    \/ \E e \in SendErrors \cup {NoExc} : second_sendmail(e)

Init == SmtpInit /\ AddrIdle /\ SiteInit /\ FacetIdle /\ MsgInit /\ AdminInit
           /\ MailInit({PlainCall}) /\ AclInit({<< >>})
           /\ ParseInit({Part("text/plain", "None", "")})

SpecSmtp == Init /\ [][SmtpNext]_vars

InitAddr == SmtpInit /\ AddrInit /\ SiteInit /\ FacetIdle /\ MsgInit /\ AdminInit
           /\ MailInit({PlainCall}) /\ AclInit({<< >>})
           /\ ParseInit({Part("text/plain", "None", "")})

SpecAddr == InitAddr /\ [][AddrNext]_vars

SpecSite == Init /\ [][SiteNext]_vars

InitFacet == SmtpInit /\ AddrIdle /\ SiteInit /\ FacetInit /\ MsgInit /\ AdminInit
           /\ MailInit({PlainCall}) /\ AclInit({<< >>})
           /\ ParseInit({Part("text/plain", "None", "")})

SpecFacet == InitFacet /\ [][FacetNext]_vars

SpecMsg == Init /\ [][MsgNext]_vars

SpecAdmin == Init /\ [][AdminNext]_vars

InitMail == SmtpInit /\ AddrIdle /\ SiteInit /\ FacetIdle /\ MsgInit /\ AdminInit
               /\ MailInit(MailCalls) /\ AclInit({<< >>})
               /\ ParseInit({Part("text/plain", "None", "")})

SpecMail == InitMail /\ [][MailNext]_vars

InitAcl == SmtpInit /\ AddrIdle /\ SiteInit /\ FacetIdle /\ MsgInit /\ AdminInit
              /\ MailInit({PlainCall}) /\ AclInit(InitialAcls)
              /\ ParseInit({Part("text/plain", "None", "")})

SpecAcl == InitAcl /\ [][AclNext]_vars

InitParse == SmtpInit /\ AddrIdle /\ SiteInit /\ FacetIdle /\ MsgInit /\ AdminInit
                /\ MailInit({PlainCall}) /\ AclInit({<< >>})
                /\ ParseInit(ParsedMessages)

SpecParse == InitParse /\ [][Call_parse_message]_vars

---------------------------------------------------------------------------
(* Claims about send_raw                                                  *)

Sends(t) == SelectSeq(t, LAMBDA x : x.ev = "sendmail")
Connects(t) == SelectSeq(t, LAMBDA x : x.ev = "connect")

\* index in t of its first sendmail event (0: none)
FirstSend(t) ==
    IF \E i \in 1..Len(t) : t[i].ev = "sendmail"
      THEN CHOOSE i \in 1..Len(t) :
               t[i].ev = "sendmail" /\ \A j \in 1..(i - 1) : t[j].ev # "sendmail"
      ELSE 0

\* "transient failure" as the claims word it
Transient(e) ==
    \/ e.cls = "SMTPServerDisconnected"
    \/ e.cls = "SMTPConnectError"
    \/ (e.cls \in ResponseClasses /\ e.code \in 400..499)

CallOver == pc = "idle" /\ calls > 0

\* C1 as stated: a transient failure of the first attempt is always followed by a
\* reconnect and exactly one further attempt with the same arguments; at most two
\* attempts per call, exactly one when the first succeeds.
C1_RetryAlwaysFollows ==
    LET s == Sends(trace)
        i == FirstSend(trace)
    IN /\ Len(s) <= 2
       /\ (Len(s) >= 1 /\ s[1].exc = NoExc) => Len(s) = 1
       /\ (CallOver /\ Len(s) >= 1 /\ Transient(s[1].exc)) =>
              /\ Len(trace) = i + 2
              /\ trace[i + 1].ev = "connect" /\ trace[i + 1].exc = NoExc
              /\ trace[i + 2].ev = "sendmail" /\ trace[i + 2].msg = s[1].msg

\* C1 (amended): after a transient failure of the first attempt send_raw calls
\* _connect; if _connect returns, exactly one further attempt is made, on the new
\* connection and with the same arguments; if _connect raises, that error is
\* propagated and no further attempt is made. At most two attempts per call, and
\* exactly one when the first succeeds.
C1_RetryOnceOnTransient ==
    LET s == Sends(trace)
        i == FirstSend(trace)
    IN /\ Len(s) <= 2
       /\ (Len(s) >= 1 /\ s[1].exc = NoExc) => Len(s) = 1
       /\ (CallOver /\ Len(s) >= 1 /\ Transient(s[1].exc)) =>
              /\ Len(trace) >= i + 1
              /\ trace[i + 1].ev = "connect"
              /\ IF trace[i + 1].exc = NoExc
                   THEN /\ Len(trace) = i + 2
                        /\ trace[i + 2].ev = "sendmail"
                        /\ trace[i + 2].msg = s[1].msg
                        /\ trace[i + 2].conn = trace[i + 1].conn
                        /\ trace[i + 2].conn # s[1].conn
                   ELSE /\ Len(trace) = i + 1
                        /\ Len(s) = 1
                        /\ raised = trace[i + 1].exc

C1_Witness ==
    /\ CallOver
    /\ Len(Sends(trace)) = 2
    /\ Sends(trace)[1].exc.cls = "SMTPResponseException"
    /\ Sends(trace)[1].exc.code = 499
    /\ Sends(trace)[2].exc = NoExc
    /\ raised = NoExc

\* C2 as stated: a first attempt that raises an SMTPResponseException whose code is
\* outside 400..499 is propagated: no reconnect, no second attempt, client unchanged.
C2_NonTransientPropagates ==
    LET s == Sends(trace)
        i == FirstSend(trace)
    IN (Len(s) >= 1 /\ s[1].exc.cls \in ResponseClasses /\ s[1].exc.code \notin 400..499) =>
           /\ pc = "idle"
           /\ raised = s[1].exc
           /\ Len(trace) = i
           /\ client = s[1].conn

\* C2 (amended): a first attempt that raises an SMTPResponseException other than an
\* SMTPConnectError, with a code outside 400..499, is propagated: no reconnect, no
\* second attempt, and the held client is unchanged.
C2_NonTransientNonConnectPropagates ==
    LET s == Sends(trace)
        i == FirstSend(trace)
    IN (/\ Len(s) >= 1
        /\ s[1].exc.cls \in ResponseClasses \ {"SMTPConnectError"}
        /\ s[1].exc.code \notin 400..499) =>
           /\ pc = "idle"
           /\ raised = s[1].exc
           /\ Len(trace) = i
           /\ client = s[1].conn

C2_Witness ==
    /\ CallOver
    /\ Len(trace) = 1
    /\ trace[1].ev = "sendmail"
    /\ trace[1].exc = [cls |-> "SMTPResponseException", code |-> 500]
    /\ raised = trace[1].exc
    /\ client = clientAtCall

\* C3: _connect is invoked only (a) as the first step of a call that started with no
\* client held, or (b) right after the first attempt of the call failed transiently
\* (so at most once that way); and when every call so far returned with its attempt
\* succeeding, there was exactly one connect (in the first call) and one attempt per
\* call, all on that one connection.
C3_OneConnectionReused ==
    /\ \A i \in 1..Len(trace) :
          trace[i].ev = "connect" =>
              \/ (i = 1 /\ clientAtCall = 0)
              \/ (/\ i >= 2
                  /\ i - 1 = FirstSend(trace)
                  /\ Transient(trace[i - 1].exc))
    /\ (pc = "idle" /\ failures = 0) =>
          /\ attempts = calls
          /\ connects = (IF calls > 0 THEN 1 ELSE 0)
          /\ usedConns \subseteq {1}
          /\ client = (IF calls > 0 THEN 1 ELSE 0)

C3_Witness ==
    /\ pc = "idle"
    /\ failures = 0
    /\ calls = 3
    /\ attempts = 3
    /\ connects = 1
    /\ usedConns = {1}

\* C10: a failure of the second attempt, transient or not, is propagated, and the
\* call ends there: no third attempt and no reconnect after the second attempt.
C10_GivesUpAfterRetry ==
    LET s == Sends(trace)
    IN /\ Len(s) <= 2
       /\ Len(Connects(trace)) <= 2
       /\ Len(s) = 2 =>
             /\ pc = "idle"
             /\ trace[Len(trace)] = s[2]
             /\ raised = s[2].exc

C10_Witness ==
    /\ CallOver
    /\ Len(Sends(trace)) = 2
    /\ Sends(trace)[2].exc = [cls |-> "SMTPResponseException", code |-> 400]
    /\ raised = Sends(trace)[2].exc

---------------------------------------------------------------------------
(* Claims about parse_address                                             *)

AddrSuffixes == <<addrIn.cfg.common_suffix>> \o addrIn.cfg.common_suffix_alt

\* positions in the suffix list of the suffixes the domain ends with
AddrMatches == {i \in 1..Len(AddrSuffixes) : EndsWith(addrIn.domain, AddrSuffixes[i])}

AddrFirstMatch == CHOOSE i \in AddrMatches : \A j \in AddrMatches : i <= j

\* the labels left of the first matching suffix, last label first
AddrPath ==
    LET n == Len(addrIn.domain) - Len(AddrSuffixes[AddrFirstMatch])
    IN Reversed(Split(SubSeq(addrIn.domain, 1, n), "."))

AddrProjects == {P \in Projects : StartsWith(AddrPath, P.path)}

AddrProject == CHOOSE P \in AddrProjects : \A Q \in AddrProjects : Len(Q.path) <= Len(P.path)

AddrLeft == SubSeq(AddrPath, Len(AddrProject.path) + 1, Len(AddrPath))

\* C4: parse_address(user@domain) strips the first suffix of [common_suffix] +
\* alternates that the domain ends with (Unknown domain if none), looks up the project
\* by the remaining labels in reversed order (Unknown project if none), wants exactly
\* one component left that is a mount point of the project (Unknown tool otherwise),
\* and returns the part before '@' unchanged with that project and that app; so the
\* domain of a routed address reads app.project-labels-reversed.suffix.
C4_ParseAddress ==
    addrOut # NoResult =>
        /\ addrOut.kind \in {"ok", "AddressException"}
        /\ IF AddrMatches = {} THEN addrOut = AddressException("Unknown domain")
           ELSE IF AddrProjects = {} THEN addrOut = AddressException("Unknown project")
           ELSE IF Len(AddrLeft) # 1 \/ AddrLeft[1] \notin AddrProject.apps
                  THEN addrOut = AddressException("Unknown tool")
           ELSE /\ addrOut.kind = "ok"
                /\ addrOut.userpart = addrIn.user
                /\ addrOut.project = AddrProject.path
                /\ addrOut.app = [project |-> AddrProject.path, mount_point |-> AddrLeft[1]]
        /\ addrOut.kind = "ok" =>
              addrIn.domain =
                  addrOut.app.mount_point \o <<".">>
                  \o Join(Reversed(addrOut.project), <<".">>)
                  \o AddrSuffixes[AddrFirstMatch]

\* a routed address whose domain ends with two of the configured suffixes
C4_Witness ==
    /\ addrOut.kind = "ok"
    /\ addrOut.userpart = <<"u">>
    /\ addrOut.project = << <<"p">>, <<"t">>, <<"s">> >>
    /\ addrOut.app.mount_point = <<"w">>
    /\ Cardinality(AddrMatches) = 2


---------------------------------------------------------------------------
(* Claims about SitemapEntry.extend                                       *)

\* how many entries of ch carry e's label and url
SameKey(ch, e) == Cardinality({i \in 1..Len(ch) : ch[i].label = e.label /\ ch[i].url = e.url})

\* C5: an entry passed to extend that already exists among the children (same label
\* and same url) is not added again, and its children are merged into the existing
\* child; an entry that does not exist yet is added.
C5_ExtendMergesExisting ==
    siteIn.called =>
        \A k \in 1..Len(siteIn.entries) :
            LET e == siteIn.entries[k]
            IN IF SameKey(siteIn.children, e) > 0
                 THEN /\ SameKey(children, e) = SameKey(siteIn.children, e)
                      /\ \A g \in 1..Len(e.children) :
                            \E i \in 1..Len(children) :
                                /\ children[i].label = e.label /\ children[i].url = e.url
                                /\ SameKey(children[i].children, e.children[g]) > 0
                 ELSE SameKey(children, e) > 0

---------------------------------------------------------------------------
(* Claims about get_facets                                                *)

\* the i-th (value, count) pair of a flat facet list
FlatPair(l, i) == <<l[2 * i - 1], l[2 * i]>>

\* the pairs of facet field f that the claim keeps: all of them when final_result is
\* None or empty, else those whose value some ticket of final_result indexes under f
KeptPairs(f) ==
    LET l == facetIn.solr_hit.facet_fields[f]
        ts == facetIn.final_result.tickets
    IN {i \in 1..(Len(l) \div 2) :
           \/ facetIn.final_result.isNone
           \/ Len(ts) = 0
           \/ \E t \in 1..Len(ts) : f \in DOMAIN ts[t] /\ ts[t][f] = l[2 * i - 1]}

\* v lists the pairs of f at the positions in KeptPairs(f), in the original order
IsKeptList(v, f) ==
    LET l == facetIn.solr_hit.facet_fields[f]
    IN /\ Len(v) = Cardinality(KeptPairs(f))
       /\ \A j \in 1..Len(v) :
             \E i \in KeptPairs(f) :
                 /\ Cardinality({h \in KeptPairs(f) : h <= i}) = j
                 /\ v[j] = FlatPair(l, i)

\* C6: get_facets(None, ...) is the empty dict; otherwise the result has exactly one
\* key per facet field, the facet name without its trailing '_s', and its value is
\* the list of (value, count) pairs of the flat list, in order, from which, when
\* final_result is non-empty, the pairs whose value no ticket indexes are removed.
C6_GetFacets ==
    facetOut.called =>
        IF facetIn.solr_hit.isNone THEN facetOut.result = EmptyDict
        ELSE LET fields == facetIn.solr_hit.facet_fields
                 res == facetOut.result
             IN /\ Cardinality(DOMAIN res) = Cardinality(DOMAIN fields)
                /\ \A f \in DOMAIN fields :
                      \E k \in DOMAIN res :
                          /\ k \o <<"_", "s">> = f
                          /\ IsKeptList(res[k], f)

\* a call with two facet fields and a non-empty final_result that removes one pair of
\* the status facet and keeps the other
C6_Witness ==
    /\ facetOut.called
    /\ DOMAIN facetIn.solr_hit.facet_fields = {F_status, F_milestone}
    /\ facetIn.solr_hit.facet_fields[F_status] = <<"open", 2, "closed", 1>>
    /\ Len(facetIn.final_result.tickets) = 2
    /\ facetOut.result[<<"s", "t", "a", "t", "u", "s">>] = << <<"closed", 1>> >>

---------------------------------------------------------------------------
(* Claims about handle_artifact_message                                   *)

\* C8: at most one post exists per message_id.  A message with a filename is only
\* saved as an attachment under its message_id; a message without one whose
\* message_id already has a post is attached to it as 'alternate'; only a message
\* without a filename and with an unseen message_id creates a post, in the artifact's
\* thread, with the payload as text, or '--no text body--' for an empty payload.
C8_OnePostPerMessageId ==
    /\ \A i, j \in 1..Len(posts) : posts[i].id = posts[j].id => i = j
    /\ msgLast.called =>
          LET m == msgLast.message
              thd == get_discussion_thread(msgLast.artifact)
              seen == \E i \in 1..Len(msgLast.posts) : msgLast.posts[i].id = m.message_id
          IN IF m.filename \notin {"None", ""}
               THEN /\ posts = msgLast.posts
                    /\ Len(attachments) = Len(msgLast.attachments) + 1
                    /\ attachments[Len(attachments)].filename = m.filename
                    /\ attachments[Len(attachments)].post_id = m.message_id
             ELSE IF seen
               THEN /\ posts = msgLast.posts
                    /\ Len(attachments) = Len(msgLast.attachments) + 1
                    /\ attachments[Len(attachments)].filename = "alternate"
                    /\ attachments[Len(attachments)].post_id = m.message_id
             ELSE /\ attachments = msgLast.attachments
                  /\ Len(posts) = Len(msgLast.posts) + 1
                  /\ SubSeq(posts, 1, Len(msgLast.posts)) = msgLast.posts
                  /\ posts[Len(posts)].id = m.message_id
                  /\ posts[Len(posts)].thread = thd
                  /\ posts[Len(posts)].text =
                         (IF m.payload = "" THEN "--no text body--" ELSE m.payload)

\* a message_id that already has a post arrives again, for another artifact, without
\* a filename: one post, one 'alternate' attachment
C8_Witness ==
    /\ msgLast.called
    /\ msgLast.message.filename = "None"
    /\ msgLast.artifact = "ticket2"
    /\ Len(posts) = 1 /\ posts[1].id = msgLast.message.message_id
    /\ posts[1].thread = "thread1"
    /\ posts[1].text = "--no text body--"
    /\ Len(attachments) = 1 /\ attachments[1].filename = "alternate"

---------------------------------------------------------------------------
(* Claims about admin_menu and configure                                  *)

MenuLabels == [i \in 1..Len(adminLast.links) |-> adminLast.links[i].label]

MenuHas(label) == \E i \in 1..Len(MenuLabels) : MenuLabels[i] = label

DeleteSet == adminLast.op = "configure" /\ adminLast.kw.delete \notin {"None", ""}

\* C9 as stated: configure with delete set never uninstalls the admin tool and
\* changes none of its options (flash and redirect instead); on any other
\* application it calls uninstall_app exactly once, with the application's mount
\* point, and writes no option.
C9_DeleteAlwaysUninstallsOthers ==
    DeleteSet =>
        LET r == adminLast.response
        IN /\ r.writes = << >>
           /\ options[adminLast.app] = adminLast.before
           /\ IF AppClasses[adminLast.app].tool_name = "admin"
                THEN /\ r.uninstall_app = << >>
                     /\ r.flash = "Cannot delete the admin tool, sorry...."
                     /\ r.status = "302"
                ELSE r.uninstall_app = <<adminLast.before["mount_point"]>>

\* C9 (amended): as above for a caller that passes require_access(app, 'configure');
\* for a caller that does not, the request ends there: uninstall_app is not called
\* and no option is written, whatever the application.
C9_DeleteNeverUninstallsAdmin ==
    DeleteSet =>
        LET r == adminLast.response
        IN /\ r.writes = << >>
           /\ options[adminLast.app] = adminLast.before
           /\ "admin" \in installed
           /\ IF ~adminLast.allowed
                THEN r.uninstall_app = << >> /\ r.status = "403"
                     /\ adminLast.app \in installed
              ELSE IF AppClasses[adminLast.app].tool_name = "admin"
                THEN /\ r.uninstall_app = << >>
                     /\ r.flash = "Cannot delete the admin tool, sorry...."
                     /\ r.status = "302" /\ r.redirect = "."
                ELSE /\ r.uninstall_app = <<adminLast.before["mount_point"]>>
                     /\ adminLast.app \notin installed

\* an allowed caller asks to delete the admin tool while submitting nothing else
C9_Witness ==
    /\ DeleteSet
    /\ adminLast.allowed
    /\ adminLast.app = "admin"
    /\ adminLast.response.flash = "Cannot delete the admin tool, sorry...."
    /\ installed = {"admin", "link"}

---------------------------------------------------------------------------
(* Claims about sendmail                                                  *)

MailCalled == mailOut.outcome # "none"

\* the call raised on its way to send_raw
MailRaised == mailOut.outcome = "TypeError"

RECURSIVE ValidRecipients(_)
\* the addresses of a list that survive _parse_smtp_addr and isvalid, in order
ValidRecipients(addrs) ==
    IF addrs = << >> THEN << >>
    ELSE (IF isvalid(_parse_smtp_addr(Head(addrs)))
            THEN <<_parse_smtp_addr(Head(addrs))>> ELSE << >>)
         \o ValidRecipients(Tail(addrs))

\* send_raw was not entered: no call, no connect, no sendmail attempt
NoSendRaw == calls = 0 /\ trace = << >> /\ connects = 0 /\ attempts = 0 /\ pc = "idle"

\* send_raw was entered exactly once, with envelope sender and recipients as given
OneSendRaw(sender, rcpts) ==
    /\ calls = 1
    /\ args[1] = sender
    /\ args[2] = rcpts
    /\ args[3] = as_string(mailOut.headers)
    /\ \A i \in 1..Len(trace) : trace[i].ev = "sendmail" => trace[i].msg = args

\* what a call that did not raise must have done, the recipients being rcpts
SendsExactlyTo(rcpts) ==
    IF mailIn.addrs = << >>
      THEN mailOut.outcome = "return" /\ mailOut.headers = mailIn.message /\ NoSendRaw
    ELSE IF ValidRecipients(rcpts) = << >>
      THEN mailOut.outcome = "warning" /\ NoSendRaw
    ELSE mailOut.outcome = "send_raw" /\ OneSendRaw(return_path, ValidRecipients(rcpts))

\* C11 as stated: with addrs empty sendmail returns at once, headers untouched and
\* send_raw not called; when no address of addrs is left after _parse_smtp_addr
\* and isvalid it warns and does not call send_raw; otherwise send_raw is called
\* exactly once with config.return_path and exactly the valid addresses of addrs,
\* in order.
C11_SendsToValidAddrs ==
    (MailCalled /\ ~MailRaised) => SendsExactlyTo(mailIn.addrs)

\* C11 (amended): the same with the recipients being addrs followed by cc when
\* cc is given (and addrs is not empty): cc is mapped and filtered like the
\* others and comes last.
C11_SendsToValidAddrsAndCc ==
    (MailCalled /\ ~MailRaised) =>
        /\ SendsExactlyTo(IF IsSet(mailIn.cc) THEN Append(mailIn.addrs, mailIn.cc)
                          ELSE mailIn.addrs)
        /\ mailIn.addrs # << >> =>
              mailOut.addrs = (IF IsSet(mailIn.cc) THEN Append(mailIn.addrs, mailIn.cc)
                               ELSE mailIn.addrs)

\* a call with one undeliverable address, one with a path in its brackets and a
\* cc went out to the two that are valid, and the server took it at once
C11_Witness ==
    /\ mailIn.addrs = <<Str.no_tld, Str.path_bracketed>>
    /\ mailIn.cc = Str.v_bracketed
    /\ mailOut.outcome = "send_raw"
    /\ calls = 1 /\ pc = "idle" /\ attempts = 1 /\ raised = NoExc
    /\ args[2] = << <<"w", "@", "d", ".", "i", "o">>, <<"v", "@", "d", ".", "i", "o">> >>

HeaderValues(name) ==
    LET hs == SelectSeq(mailOut.headers, LAMBDA h : h.name = name)
    IN [i \in 1..Len(hs) |-> hs[i].value]

\* References as the claim describes it for references that are given
JoinedReferences ==
    Join([i \in 1..Len(aslist(mailIn.references)) |->
             <<"<">> \o aslist(mailIn.references)[i] \o <<">">>], <<" ">>)

\* the threading headers of a call that got as far as setting them; Given says
\* when an argument counts as given
ThreadingAsClaimed(irtGiven, refsGiven) ==
    /\ Len(HeaderValues("References")) = (IF irtGiven \/ refsGiven THEN 1 ELSE 0)
    /\ Len(HeaderValues("In-Reply-To")) = (IF irtGiven THEN 1 ELSE 0)
    /\ irtGiven =>
          HeaderValues("In-Reply-To")[1] = <<"<">> \o mailIn.in_reply_to.val \o <<">">>
    /\ (irtGiven /\ ~refsGiven) =>
          HeaderValues("References")[1] = HeaderValues("In-Reply-To")[1]
    /\ refsGiven => HeaderValues("References")[1] = JoinedReferences

\* C12 as stated: one References header whenever in_reply_to or references is
\* given, none when both are absent; with in_reply_to alone In-Reply-To is
\* '<in_reply_to>' and References equals it; with references, References is the
\* wrapped references joined by blanks and In-Reply-To is set only for a given
\* in_reply_to; an in_reply_to that is not a string raises TypeError and
\* send_raw is not called.
C12_NonStringRaises ==
    (MailCalled /\ mailIn.addrs # << >>) =>
        IF mailIn.in_reply_to.type = "list"
          THEN MailRaised /\ NoSendRaw
          ELSE ~MailRaised
               /\ ThreadingAsClaimed(PyTruthy(mailIn.in_reply_to), PyTruthy(mailIn.references))

\* C12 (amended): the same where "given" means not None and not empty, and where
\* only a non-empty in_reply_to that is not a string raises TypeError; an empty
\* list counts as absent like None and ''.
C12_ThreadingHeaders ==
    (MailCalled /\ mailIn.addrs # << >>) =>
        IF mailIn.in_reply_to.type = "list" /\ mailIn.in_reply_to.val # << >>
          THEN MailRaised /\ NoSendRaw
               /\ HeaderValues("References") = << >> /\ HeaderValues("In-Reply-To") = << >>
          ELSE ~MailRaised
               /\ ThreadingAsClaimed(PyTruthy(mailIn.in_reply_to), PyTruthy(mailIn.references))

\* a reply that also carries two references went out with both headers
C12_Witness ==
    /\ mailIn.in_reply_to = Py("str", Str.r1)
    /\ mailIn.references = Py("list", <<Str.r1, Str.r2>>)
    /\ mailOut.outcome = "send_raw"
    /\ HeaderValues("In-Reply-To") = << <<"<", "r", "1", ">">> >>
    /\ HeaderValues("References") = << <<"<", "r", "1", ">", " ", "<", "r", "2", ">">> >>
    /\ calls = 1

---------------------------------------------------------------------------
(* Claims about DefaultAdminController.update                             *)

RECURSIVE SubmittedAcl(_)
\* one ALLOW entry per card and role id, 'value' before 'new', in card order
SubmittedAcl(cards) ==
    IF cards = << >> THEN << >>
    ELSE LET c == Head(cards)
             ids == id_list(c.value) \o id_list(c.new)
         IN [i \in 1..Len(ids) |->
                [access |-> "ALLOW", role_id |-> ObjectId(ids[i]), permission |-> c.id]]
            \o SubmittedAcl(Tail(cards))

AddsRole(c) == id_list(c.new) # << >>

\* the previous ACL allowed c.id to a role that the card's 'value' does not list
DropsGranted(c) ==
    \E i \in 1..Len(aclLast.before) :
        /\ aclLast.before[i].access = "ALLOW"
        /\ aclLast.before[i].permission = c.id
        /\ ~Contains(id_list(c.value), aclLast.before[i].role_id.oid)

LoggedPermissions == [i \in 1..Len(auditLog) |-> auditLog[i].permission]

PermissionsOf(cards) == [i \in 1..Len(cards) |-> cards[i].id]

\* C13 as stated: after update config.acl is exactly one ALLOW entry per card and
\* role id of its 'value' list followed by its 'new' list, in card order, nothing
\* of the previous ACL is left otherwise, and an audit-log record is written for
\* a card iff the card adds a role or drops a role the previous ACL granted for
\* that permission.
C13_LogIffAddsOrDropsGranted ==
    (aclLast.called /\ aclLast.card_given) =>
        /\ acl = SubmittedAcl(aclLast.card)
        /\ LoggedPermissions =
              PermissionsOf(SelectSeq(aclLast.card, LAMBDA c : AddsRole(c) \/ DropsGranted(c)))

\* C15: update changes config.acl only for an authorised caller: an access check
\* on the application or its project precedes the first write to config.acl, and
\* for a caller without admin permission config.acl is unchanged.
C15_AclChangeNeedsAdmin ==
    aclLast.called =>
        /\ aclLast.access_checks # << >>
        /\ ~aclLast.has_admin => acl = aclLast.before

---------------------------------------------------------------------------
(* Claims about parse_message                                             *)

\* the text behind the last '/' of inner, all of it when it has none
AfterLastSlash(inner) ==
    LET slashes == {i \in 1..Len(inner) : inner[i] = "/"}
    IN IF slashes = {} THEN inner
       ELSE SubSeq(inner, (CHOOSE i \in slashes : \A j \in slashes : j <= i) + 1, Len(inner))

RECURSIVE BracketedIdsFrom(_, _)
\* the ids of the '<...>' groups of s that open at position p or later
BracketedIdsFrom(s, p) ==
    LET opens == {i \in p..Len(s) : s[i] = "<"}
    IN IF opens = {} THEN << >>
       ELSE LET i == CHOOSE x \in opens : \A y \in opens : x <= y
                closes == {j \in (i + 1)..Len(s) : s[j] = ">"}
            IN IF closes = {} THEN << >>
               ELSE LET j == CHOOSE x \in closes : \A y \in closes : x <= y
                    IN <<AfterLastSlash(SubSeq(s, i + 1, j - 1))>> \o BracketedIdsFrom(s, j + 1)

\* all bracketed ids of a header, none when the message has no such header
BracketedIds(header) == IF header = None THEN << >> ELSE BracketedIdsFrom(header, 1)

\* C14: parse_message yields one message id: the first bracketed id of the
\* Message-ID header, without what precedes the last '/' inside the brackets, or
\* a generated id when the header is absent or has no bracketed id; in_reply_to
\* and references are the lists of all bracketed ids of their headers; a
\* multipart message has 'parts' and no 'payload', any other 'payload' and no
\* 'parts'; every part carries the ids of the top-level result.
C14_ParseMessageShape ==
    parseOut.called =>
        LET r == parseOut.result
            ids == BracketedIds(parseIn.headers["Message-ID"])
        IN /\ r.message_id = (IF ids = << >> THEN gen_message_id ELSE ids[1])
           /\ r.in_reply_to = BracketedIds(parseIn.headers["In-Reply-To"])
           /\ r.references = BracketedIds(parseIn.headers["References"])
           /\ r.multipart = parseIn.multipart
           /\ IF parseIn.multipart
                THEN /\ "parts" \in DOMAIN r /\ "payload" \notin DOMAIN r
                     /\ Len(r.parts) = 1 + Len(parseIn.parts)
                     /\ \A i \in 1..Len(r.parts) :
                           /\ r.parts[i].message_id = r.message_id
                           /\ r.parts[i].in_reply_to = r.in_reply_to
                           /\ r.parts[i].references = r.references
                ELSE "payload" \in DOMAIN r /\ "parts" \notin DOMAIN r

\* a multipart message whose Message-ID has a path inside its brackets and whose
\* In-Reply-To names two ids is parsed into a container and two parts
C14_Witness ==
    /\ parseOut.called
    /\ parseIn.multipart
    /\ Len(parseIn.parts) = 2
    /\ parseIn.headers["Message-ID"] = Hdr.path_m1
    /\ parseIn.headers["In-Reply-To"] = Hdr.two
    /\ parseOut.result.message_id = <<"m", "1">>
    /\ parseOut.result.in_reply_to = << <<"m", "1">>, <<"m", "2">> >>
    /\ Len(parseOut.result.parts) = 3

===========================================================================
